---- MODULE Spec2Model ----
(***************************************************************************)
(* es-view: the batch executor of the REST console                         *)
(* (src/pages/RestConsole.tsx, handleExecute) and the page fetch of the    *)
(* data browser (src/pages/DataBrowser.tsx, execute).                      *)
(*                                                                         *)
(* The host runtime is a single-threaded event loop: a handler runs from   *)
(* the event that starts it to its next await (or its return) without      *)
(* interleaving.  Every action below is one such run.                      *)
(***************************************************************************)
EXTENDS Integers, Sequences, FiniteSets, TLC

\* ------------------------------------------------------------------------
\* Bounds of the model
\* ------------------------------------------------------------------------
\* The blocks of a script plus the retry count are at most MaxWork
MaxWork == 3

\* ------------------------------------------------------------------------
\* Program constants
\* ------------------------------------------------------------------------
MaxWorkers == 10
MinWorkers == 1

Max(a, b) == IF a >= b THEN a ELSE b
Min(a, b) == IF a <= b THEN a ELSE b

\* The concurrency setting is a JavaScript number; it is kept in halves so
\* that fractional inputs (0.5, 2.5) and negative ones are representable.
\* setConcurrency(Number(v) || 1) never stores 0 or NaN.
ConcurrencyHalves == {-2, 5, 22}

\* Math.floor of a number given in halves.
Floor(halves) == halves \div 2

WorkerCountCeil(halves) ==
    Max(MinWorkers, Min(MaxWorkers, -((-halves) \div 2)))
\* const workerCount = Math.max(1, Math.min(10, Math.floor(concurrency)))
WorkerCount(halves) == Max(MinWorkers, Min(MaxWorkers, Floor(halves)))

Workers == 1..MaxWorkers

\* ------------------------------------------------------------------------
\* Text.  A text is a sequence of one-character strings over an alphabet
\* of letters, "/", "#", "{", "}", "[", "]", space, tab, "\r" and "\n".
\* ------------------------------------------------------------------------
LowerLetters == << "a","b","c","d","e","f","g","h","i","j","k","l","m",
                   "n","o","p","q","r","s","t","u","v","w","x","y","z" >>
UpperLetters == << "A","B","C","D","E","F","G","H","I","J","K","L","M",
                   "N","O","P","Q","R","S","T","U","V","W","X","Y","Z" >>

\* String.prototype.toUpperCase, one character
UpperChar(c) ==
    IF \E k \in 1..Len(LowerLetters) : LowerLetters[k] = c
    THEN UpperLetters[CHOOSE k \in 1..Len(LowerLetters) : LowerLetters[k] = c]
    ELSE c

ToUpperCase(t) == [k \in 1..Len(t) |-> UpperChar(t[k])]

\* \s of a regular expression and the characters trim() removes
WhiteSpace == {" ", "\t", "\r", "\n"}
IsSpace(c) == c \in WhiteSpace

\* String.prototype.trimEnd
RECURSIVE TrimEnd(_)
TrimEnd(t) ==
    IF Len(t) > 0 /\ IsSpace(t[Len(t)])
    THEN TrimEnd(SubSeq(t, 1, Len(t) - 1))
    ELSE t

RECURSIVE TrimStart(_)
TrimStart(t) ==
    IF Len(t) > 0 /\ IsSpace(t[1]) THEN TrimStart(Tail(t)) ELSE t

\* String.prototype.trim
Trim(t) == TrimStart(TrimEnd(t))

\* String.prototype.startsWith
StartsWith(t, prefix) ==
    /\ Len(t) >= Len(prefix)
    /\ SubSeq(t, 1, Len(prefix)) = prefix

\* text.split(/\r?\n/): the lines of a text
RECURSIVE SplitFrom(_, _, _)
SplitFrom(t, k, line) ==
    IF k > Len(t) THEN << line >>
    ELSE IF t[k] = "\n" THEN << line >> \o SplitFrom(t, k + 1, << >>)
    ELSE IF t[k] = "\r" /\ k < Len(t) /\ t[k + 1] = "\n"
         THEN << line >> \o SplitFrom(t, k + 2, << >>)
    ELSE SplitFrom(t, k + 1, Append(line, t[k]))

SplitLines(t) == SplitFrom(t, 1, << >>)

\* Array.prototype.join("\n")
RECURSIVE JoinLines(_)
JoinLines(ls) ==
    IF Len(ls) = 0 THEN << >>
    ELSE IF Len(ls) = 1 THEN ls[1]
    ELSE ls[1] \o << "\n" >> \o JoinLines(Tail(ls))

\* const METHODS = ["GET", "POST", "PUT", "DELETE", "PATCH", "HEAD"]
METHODS == << <<"G","E","T">>, <<"P","O","S","T">>, <<"P","U","T">>,
              <<"D","E","L","E","T","E">>, <<"P","A","T","C","H">>,
              <<"H","E","A","D">> >>

\* Length of the longest run of white space (sp = TRUE) or of other
\* characters (sp = FALSE) of t that starts at position k.
RECURSIVE RunLength(_, _, _)
RunLength(t, k, sp) ==
    IF k <= Len(t) /\ (IsSpace(t[k]) <=> sp)
    THEN 1 + RunLength(t, k + 1, sp)
    ELSE 0

\* Alternative m of (GET|POST|PUT|DELETE|PATCH|HEAD)\s+(\S+), anchored at
\* the start of trimmed and case-insensitive, matches.
AlternativeFits(trimmed, m) ==
    LET len == Len(METHODS[m])
    IN /\ Len(trimmed) > len + 1
       /\ \A k \in 1..len : UpperChar(trimmed[k]) = METHODS[m][k]
       /\ IsSpace(trimmed[len + 1])
       /\ RunLength(trimmed, len + 1 + RunLength(trimmed, len + 1, TRUE),
                    FALSE) >= 1

\* trimmed.match(/^(GET|POST|PUT|DELETE|PATCH|HEAD)\s+(\S+)/i): the index
\* in METHODS of the first alternative that matches from m on, 0 when
\* there is none.
RECURSIVE FirstAlternative(_, _)
FirstAlternative(trimmed, m) ==
    IF m > Len(METHODS) THEN 0
    ELSE IF AlternativeFits(trimmed, m) THEN m
    ELSE FirstAlternative(trimmed, m + 1)

MatchedMethod(trimmed) == FirstAlternative(trimmed, 1)

\* match[2]: the (\S+) group of a line that matches with alternative m
MatchedPath(trimmed, m) ==
    LET start == Len(METHODS[m]) + 1
                   + RunLength(trimmed, Len(METHODS[m]) + 1, TRUE)
    IN SubSeq(trimmed, start, start + RunLength(trimmed, start, FALSE) - 1)

NormalizePathNoSlash(input) == Trim(input)
\* normalizePath
NormalizePath(input) ==
    LET trimmed == Trim(input)
    IN IF trimmed = << >> THEN << >>
       ELSE IF StartsWith(trimmed, << "/" >>) THEN trimmed
       ELSE << "/" >> \o trimmed

IsCommentOrBlank(trimmed) ==
    \/ trimmed = << >>
    \/ StartsWith(trimmed, << "#" >>)
    \/ StartsWith(trimmed, << "/", "/" >>)

CloseCommand(cur) ==
    [method |-> cur.method, path |-> cur.path,
     bodyText |-> Trim(JoinLines(cur.bodyLines))]

PushLineDropped(cur, line) == cur
\* if (current) { current.bodyLines.push(line) }
PushLine(cur, line) ==
    IF cur = << >> THEN cur
    ELSE << [cur[1] EXCEPT !.bodyLines = Append(@, line)] >>

\* The for loop of parseBatchCommands over lines k..Len(lines); cur is
\* << >> while no command is open and << c >> when command c is open.
RECURSIVE ParseLines(_, _, _, _)
ParseLines(lines, k, cur, cmds) ==
    IF k > Len(lines)
    THEN IF cur = << >> THEN cmds ELSE Append(cmds, CloseCommand(cur[1]))
    ELSE
      LET line == TrimEnd(lines[k])
          trimmed == Trim(line)
          m == MatchedMethod(trimmed)
          pushed == PushLine(cur, line)
      IN IF IsCommentOrBlank(trimmed)
         THEN ParseLines(lines, k + 1, pushed, cmds)
         ELSE IF m # 0
         THEN ParseLines(lines, k + 1,
                  << [method |-> METHODS[m],
                      path |-> NormalizePath(MatchedPath(trimmed, m)),
                      bodyLines |-> << >>] >>,
                  IF cur = << >> THEN cmds
                  ELSE Append(cmds, CloseCommand(cur[1])))
         ELSE ParseLines(lines, k + 1, pushed, cmds)

\* parseBatchCommands
ParseBatchCommands(text) == ParseLines(SplitLines(text), 1, << >>, << >>)

\* JSON.  Over the alphabet of the model (no digits, no quotes, no comma,
\* no lower-case text spelling true, false or null) the JSON texts are the
\* empty object, the empty array and arrays of one element that is such a
\* text, with optional white space around and between the brackets.
StripSpace(t) == SelectSeq(t, LAMBDA c : ~IsSpace(c))
CompactJson == { << "{", "}" >>, << "[", "]" >> }

\* JSON.parse of a text without white space: ok when it parses, and then
\* the value as its innermost empty object or array (core) and the number
\* of one-element arrays around it (depth)
RECURSIVE JsonValueOf(_)
JsonValueOf(s) ==
    IF s \in CompactJson THEN [ok |-> TRUE, depth |-> 0, core |-> s]
    ELSE IF Len(s) > 2 /\ s[1] = "[" /\ s[Len(s)] = "]"
    THEN LET inner == JsonValueOf(SubSeq(s, 2, Len(s) - 1))
         IN [inner EXCEPT !.depth = @ + 1]
    ELSE [ok |-> FALSE, depth |-> 0, core |-> << >>]

\* JSON.parse(text)
JsonParse(text) == JsonValueOf(StripSpace(text))
JsonParses(text) == JsonParse(text).ok

Spaces(n) == [k \in 1..n |-> " "]

\* The lines of JSON.stringify(value, null, 2) at indentation ind
RECURSIVE PrettyLines(_, _)
PrettyLines(v, ind) ==
    IF v.depth = 0 THEN << Spaces(ind) \o v.core >>
    ELSE << Spaces(ind) \o << "[" >> >>
         \o PrettyLines([v EXCEPT !.depth = @ - 1], ind + 2)
         \o << Spaces(ind) \o << "]" >> >>

\* formatJson
FormatJson(text) == JoinLines(PrettyLines(JsonParse(text), 0))

BodyBlockSameLine(formatted) == << " " >> \o formatted
\* bodyBlock = `\n${formatted}`
BodyBlock(formatted) == << "\n" >> \o formatted

\* `${cmd.method} ${cmd.path}${bodyBlock}`
FormatCommand(cmd) ==
    cmd.method \o << " " >> \o cmd.path
       \o (IF cmd.bodyText # << >> THEN BodyBlock(FormatJson(cmd.bodyText))
           ELSE << >>)

\* Array.prototype.join("\n\n") of the formatted commands from k on
RECURSIVE JoinCommands(_, _)
JoinCommands(cmds, k) ==
    IF k > Len(cmds) THEN << >>
    ELSE IF k = Len(cmds) THEN FormatCommand(cmds[k])
    ELSE FormatCommand(cmds[k]) \o << "\n", "\n" >> \o JoinCommands(cmds, k + 1)

\* formatBatchText returns: some command is parsed and no formatJson throws
FormatAccepts(text) ==
    LET cmds == ParseBatchCommands(text)
    IN /\ Len(cmds) > 0
       /\ \A k \in 1..Len(cmds) :
             cmds[k].bodyText = << >> \/ JsonParses(cmds[k].bodyText)

\* formatBatchText, when it returns
FormatBatchText(text) == Trim(JoinCommands(ParseBatchCommands(text), 1))

\* The blocks the scripts of the model are made of
Blocks ==
    { << "G","E","T"," ","/","a" >>,
      << "p","o","s","t"," ","b","\n","{","}" >>,
      << "P","U","T"," ","/","c","\n","{","b","a","d" >> }

RECURSIVE JoinBlocks(_)
JoinBlocks(bs) ==
    IF Len(bs) = 0 THEN << >>
    ELSE IF Len(bs) = 1 THEN bs[1]
    ELSE bs[1] \o << "\n" >> \o JoinBlocks(Tail(bs))

\* The scripts of at most max blocks
Scripts(max) ==
    { JoinBlocks(bs) : bs \in UNION { [1..n -> Blocks] : n \in 0..max } }

\* Scripts without a command line: a comment that has the shape of a
\* command, and a body followed by a method without a path
NoCommandScripts ==
    { << "#"," ","G","E","T"," ","/","n" >>,
      << "{","}","\n","g","e","t"," " >> }

\* Scripts of one command that is followed by comment lines: a command
\* without a body, and a command with a JSON body
CommentScripts ==
    { << "G","E","T"," ","/","a","\n","#"," ","n","\n" >>,
      << "p","o","s","t"," ","b","\n","{","}","\n","/","/","c" >> }

\* The blocks the scripts handed to the formatter are made of
FormatBlocks ==
    { << "G","E","T"," ","/","a" >>,
      << "p","o","s","t"," ","b","\n","["," ","{","}","\n","\n","]" >>,
      << "P","U","T"," ","/","c","\n","{","b","a","d" >>,
      << "#"," ","G","E","T"," ","/","n" >>,
      << "D","e","l","e","t","e"," "," ","/","d","\t","x"," " >>,
      << "{"," ","}" >>,
      << " ","/","/","p","u","t"," ","/","y" >>,
      << >> }

FormatScripts(max) ==
    { JoinBlocks(bs) : bs \in UNION { [1..n -> FormatBlocks] : n \in 0..max } }

\* Outcomes of one esRequestRaw call: a response with a 2xx status, a
\* response with another status, or a rejected promise (transport failure).
ResolveOutcomes == {"200", "404"}
EsRequestRawOk(status) == status = "200"

\* Inputs of the single-request form
SinglePaths == { << >>, << "_", "s" >> }
SingleBodies == { << >>, << "{", "}" >>, << "{", "b" >> }

VARIABLES
    \* React state of the console
    activeConnection, batchMode, batchText, concurrency, stopOnError,
    retryCount, loading, error, response, batchResults, batchTotal,
    \* position of the handleExecute call and what its closures captured
    phase, commands, workerCount,
    \* the locals the workers share, the progress counter they drive and
    \* the history of the batch (see NoBatch)
    batch,
    \* React state of the data browser
    dbConnection, selectedIndex, page, size, conditions, result,
    dbError, dbLoading,
    \* the documents that match the query, and the search requests sent
    totalDocs, requests,
    \* position and locals of the execute call
    fetchPc, currentPosition, searchAfter,
    \* the execute calls that were in flight when a later one started
    superseded,
    \* the application context: its state, the persisted store, and the
    \* operations in flight (see AppOf)
    app

consoleVars == << activeConnection, batchMode, batchText, concurrency,
                  stopOnError, retryCount, loading, error, response,
                  batchResults, batchTotal, phase, commands, workerCount,
                  batch >>

browserVars == << dbConnection, selectedIndex, page, size, conditions,
                  result, dbError, dbLoading, totalDocs, requests, fetchPc,
                  currentPosition, searchAfter, superseded >>

vars == << consoleVars, browserVars, app >>

\* What no step of a handleExecute call writes
settings == << activeConnection, batchMode, batchText, concurrency,
               stopOnError, retryCount, app >>

cursor == batch.cursor
stopped == batch.stopped
results == batch.results
batchCompleted == batch.batchCompleted
wpc == batch.wpc
wcur == batch.wcur
wattempt == batch.wattempt

Indices(cmds) == 0..(Len(cmds) - 1)

\* An empty slot of new Array(commands.length)
EmptySlot == [filled |-> FALSE, index |-> -1, method |-> << >>,
              path |-> << >>, status |-> "null", ok |-> FALSE, error |-> ""]

\* The result of a command that failed: status null, ok false, error set
ErrorResult(current, cmd, err) ==
    [filled |-> TRUE, index |-> current, method |-> cmd.method,
     path |-> cmd.path, status |-> "null", ok |-> FALSE, error |-> err]

\* The result of a command whose call returned a response
ResponseResult(current, cmd, status) ==
    [filled |-> TRUE, index |-> current, method |-> cmd.method,
     path |-> cmd.path, status |-> status, ok |-> EsRequestRawOk(status),
     error |-> ""]

FilledCount(res) == Cardinality({i \in DOMAIN res : res[i].filled})

ResultSlotPush(current, res) == FilledCount(res)
\* results[current] = {...}: the slot a result is written to
ResultSlot(current, res) == current

NextCursorSkip(c) == c + 2
\* cursor += 1
NextCursor(c) == c + 1

StoppedCheckMissing(flag) == FALSE
\* if (stopped) return;
StoppedCheck(flag) == flag

StopOnFailureAlways(flag) == TRUE
\* if (stopOnError) { stopped = true; ... }
StopOnFailure(flag) == flag

RetryLoopContinuesOffByOne(attempt, retries) == attempt < retries
\* while (attempt <= retryCount)
RetryLoopContinues(attempt, retries) == attempt <= retries

RetryExhaustedAlways(attempt, retries) == TRUE
\* if (attempt >= retryCount)
RetryExhausted(attempt, retries) == attempt >= retries

BodyInvalidUnchecked(bodyText) == FALSE
\* if (cmd.bodyText) { try { JSON.parse(cmd.bodyText) } catch ... }
BodyInvalid(bodyText) == bodyText # << >> /\ ~JsonParses(bodyText)

NoCommandsUnchecked(cmds) == FALSE
\* if (commands.length === 0)
NoCommands(cmds) == Len(cmds) = 0

LoadingAfterBatchKept == TRUE
\* setLoading(false) at the end of the batch branch
LoadingAfterBatch == FALSE

WriteResult(s, w, current, r) ==
    LET slot == ResultSlot(current, s.results)
    IN [s EXCEPT !.results[slot] = r,
                 !.writes[slot] = @ + 1]

\* await esRequestRaw(activeConnection, cmd.path, { method, body })
SendRequest(s, w) ==
    [s EXCEPT !.wpc[w] = "net", !.sent[s.wcur[w]] = @ + 1]

\* setBatchCompleted((prev) => prev + 1)
IncCompleted(s, w) ==
    [s EXCEPT !.batchCompleted = @ + 1, !.incs[s.wcur[w]] = @ + 1]

\* return: the locals of the worker are gone
Return(s, w) ==
    [s EXCEPT !.wpc[w] = "returned", !.wcur[w] = 0, !.wattempt[w] = 0]

\* What a worker closure captured from the render that started the batch
Closure == [commands |-> commands, stopOnError |-> stopOnError,
            retryCount |-> retryCount]

\* One worker from a point of its body to its next await or its return:
\*   "top"        the top of while (true)
\*   "retryLoop"  the test of while (attempt <= retryCount)
\*   "afterLoop"  the statements after the retry loop
RECURSIVE WorkerRun(_, _, _, _)
WorkerRun(s, w, cl, at) ==
    IF at = "top"
    THEN
      IF StoppedCheck(s.stopped)
      THEN Return(s, w)
      ELSE
        LET current == s.cursor
            s1 == [s EXCEPT !.cursor = NextCursor(current)]
        IN IF current >= Len(cl.commands)
           THEN Return(s1, w)
           ELSE
             LET cmd == cl.commands[current + 1]
                 s2 == [s1 EXCEPT !.claimCount[current] = @ + 1,
                                  !.lateClaims =
                                      IF s.stopped THEN @ + 1 ELSE @,
                                  !.wcur[w] = current]
             IN IF cmd.path = << >>
                THEN LET s3 == WriteResult(s2, w, current,
                                   ErrorResult(current, cmd, "missingPath"))
                     IN IF StopOnFailure(cl.stopOnError)
                        THEN Return([s3 EXCEPT !.stopped = TRUE], w)
                        ELSE WorkerRun(s3, w, cl, "top")
                ELSE IF BodyInvalid(cmd.bodyText)
                THEN LET s3 == WriteResult(s2, w, current,
                                   ErrorResult(current, cmd, "invalidJson"))
                     IN IF StopOnFailure(cl.stopOnError)
                        THEN Return([s3 EXCEPT !.stopped = TRUE], w)
                        ELSE WorkerRun(s3, w, cl, "top")
                ELSE WorkerRun([s2 EXCEPT !.wattempt[w] = 0], w, cl,
                               "retryLoop")
    ELSE IF at = "retryLoop"
    THEN
      IF RetryLoopContinues(s.wattempt[w], cl.retryCount)
      THEN SendRequest(s, w)
      ELSE WorkerRun(s, w, cl, "afterLoop")
    ELSE
      LET s1 == IncCompleted(s, w)
      IN IF cl.stopOnError /\ s1.stopped
         THEN Return(s1, w)
         ELSE WorkerRun(s1, w, cl, "top")

\* Array.from({ length: workerCount }, () => worker()): the workers are
\* started one after the other, each running to its first await.
RECURSIVE StartWorkers(_, _, _, _)
StartWorkers(s, w, n, cl) ==
    IF w > n THEN s
    ELSE StartWorkers(WorkerRun(s, w, cl, "top"), w + 1, n, cl)

\* The locals of a handleExecute call that has not reached the batch.
\* claimCount, lateClaims, writes, sent, incs and outcomes are history:
\* per command the number of times it was claimed, written, sent and
\* counted and the outcomes of its calls, and the number of commands
\* claimed while stopped was already set.
NoBatch ==
    [cursor |-> 0, stopped |-> FALSE, results |-> << >>,
     wpc |-> [w \in Workers |-> "none"], wcur |-> [w \in Workers |-> 0],
     wattempt |-> [w \in Workers |-> 0], batchCompleted |-> 0,
     claimCount |-> << >>, lateClaims |-> 0, writes |-> << >>,
     sent |-> << >>, incs |-> << >>, outcomes |-> << >>]

\* The locals at let cursor = 0; let stopped = false
NewBatch(cmds) ==
    [NoBatch EXCEPT !.results = [i \in Indices(cmds) |-> EmptySlot],
                    !.claimCount = [i \in Indices(cmds) |-> 0],
                    !.writes = [i \in Indices(cmds) |-> 0],
                    !.sent = [i \in Indices(cmds) |-> 0],
                    !.incs = [i \in Indices(cmds) |-> 0],
                    !.outcomes = [i \in Indices(cmds) |-> << >>]]

\* results.filter(Boolean)
RECURSIVE FilledFrom(_, _)
FilledFrom(res, i) ==
    IF i \notin DOMAIN res THEN << >>
    ELSE IF res[i].filled THEN << res[i] >> \o FilledFrom(res, i + 1)
    ELSE FilledFrom(res, i + 1)

Filled(res) == FilledFrom(res, 0)

\* result === null
NoResult == [set |-> FALSE, first |-> 0, count |-> 0, total |-> 0]

\* searchAfter === undefined
NoCursor == [set |-> FALSE, at |-> 0]

\* const defaultState: LocalState, with the connections that have a
\* profile, a secret and cached indices as sets of ids, and 0 for no
\* lastConnectionId
DefaultState == [profiles |-> {}, secrets |-> {}, cached |-> {}, last |-> 0]

\* The application context once loadState has returned st: state is the
\* React state, stored the persisted copy, ops the persist-based
\* operations in flight.  held is history: the connections whose
\* saveConnection has completed and for which deleteConnection has not
\* been called since.
AppOf(st) == [state |-> st, stored |-> st, ops |-> << >>, held |-> {}]

\* The settings of a console in which batch mode was never switched on
DefaultSettings ==
    /\ batchText = << >>
    /\ concurrency = 6
    /\ stopOnError = FALSE
    /\ retryCount = 0

\* The data browser before any fetch
BrowserIdle ==
    /\ dbConnection = TRUE
    /\ selectedIndex = TRUE
    /\ page = 1
    /\ size = 10
    /\ conditions = << >>
    /\ result = NoResult
    /\ dbError = ""
    /\ dbLoading = FALSE
    /\ totalDocs = 0
    /\ requests = << >>
    /\ fetchPc = "idle"
    /\ currentPosition = 0
    /\ searchAfter = NoCursor
    /\ superseded = << >>
    /\ app = AppOf(DefaultState)

Init ==
    /\ BrowserIdle
    /\ activeConnection \in BOOLEAN
    /\ batchMode \in BOOLEAN
    /\ IF activeConnection /\ batchMode
       THEN /\ retryCount \in 0..(MaxWork - 1)
            /\ batchText \in Scripts(MaxWork - retryCount)
                             \cup NoCommandScripts \cup CommentScripts
            /\ concurrency \in ConcurrencyHalves
            /\ stopOnError \in BOOLEAN
       ELSE DefaultSettings
    /\ loading = FALSE
    /\ error = ""
    /\ response = "null"
    /\ batchResults = << >>
    /\ batchTotal = 0
    /\ phase = "idle"
    /\ commands = << >>
    /\ workerCount = 0
    /\ batch = NoBatch

\* handleExecute up to its first await or its return
HandleExecute ==
    /\ ~loading
    /\ response' = "null"
    /\ batchResults' = << >>
    /\ UNCHANGED << settings, browserVars >>
    /\ IF ~activeConnection
       THEN /\ error' = "noConnection"
            /\ loading' = FALSE
            /\ batchTotal' = 0
            /\ phase' = "idle"
            /\ commands' = << >>
            /\ workerCount' = 0
            /\ batch' = NoBatch
       ELSE IF batchMode
       THEN \E cmds \in {ParseBatchCommands(batchText)},
               n \in {WorkerCount(concurrency)} :
               IF NoCommands(cmds)
               THEN /\ error' = "noCommand"
                    /\ loading' = FALSE
                    /\ batchTotal' = 0
                    /\ phase' = "idle"
                    /\ commands' = << >>
                    /\ workerCount' = 0
                            /\ batch' = NoBatch
               ELSE /\ error' = ""
                    /\ loading' = TRUE
                    /\ batchTotal' = Len(cmds)
                    /\ phase' = "running"
                    /\ commands' = cmds
                    /\ workerCount' = n
                    /\ batch' = StartWorkers(NewBatch(cmds), 1, n,
                           [commands |-> cmds, stopOnError |-> stopOnError,
                            retryCount |-> retryCount])
       ELSE \E path \in SinglePaths, requestBody \in SingleBodies :
              /\ batchTotal' = 0
              /\ commands' = << >>
              /\ workerCount' = 0
                /\ batch' = NoBatch
              /\ IF NormalizePath(path) = << >>
                 THEN /\ error' = "enterPath"
                      /\ loading' = FALSE
                      /\ phase' = "idle"
                 ELSE IF Trim(requestBody) # << >>
                         /\ ~JsonParses(Trim(requestBody))
                 THEN /\ error' = "invalidJson"
                      /\ loading' = FALSE
                      /\ phase' = "idle"
                 ELSE /\ error' = ""
                      /\ loading' = TRUE
                      /\ phase' = "single"

\* The single request returns a response or is rejected
SingleSettle ==
    /\ phase = "single"
    /\ \/ \E status \in ResolveOutcomes :
            /\ response' = status
            /\ error' = error
       \/ /\ error' = "requestFailed"
          /\ response' = response
    /\ loading' = FALSE
    /\ phase' = "idle"
    /\ UNCHANGED << settings, batchResults, batchTotal, commands,
                    workerCount, batch, browserVars >>

Settled(s, w, outcome) ==
    [s EXCEPT !.outcomes[s.wcur[w]] = Append(@, outcome)]

\* The call of worker w returns a response: the try block after the await
NetResolve(w, status) ==
    /\ phase = "running"
    /\ wpc[w] = "net"
    /\ batch' = WorkerRun(
           WriteResult(Settled(batch, w, status), w, wcur[w],
               ResponseResult(wcur[w], commands[wcur[w] + 1], status)),
           w, Closure, "afterLoop")
    /\ UNCHANGED << settings, loading, error, response, batchResults,
                    batchTotal, phase, commands, workerCount, browserVars >>

\* The call of worker w is rejected: the catch block
NetReject(w) ==
    /\ phase = "running"
    /\ wpc[w] = "net"
    /\ LET s0 == Settled(batch, w, "reject")
           s1 == WriteResult(s0, w, wcur[w],
                     ErrorResult(wcur[w], commands[wcur[w] + 1],
                                 "transport"))
       IN batch' =
            IF RetryExhausted(wattempt[w], retryCount)
            THEN IF StopOnFailure(stopOnError)
                 THEN WorkerRun([s1 EXCEPT !.stopped = TRUE], w, Closure,
                                "afterLoop")
                 ELSE WorkerRun([s1 EXCEPT !.wattempt[w] = @ + 1], w,
                                Closure, "retryLoop")
            ELSE [s0 EXCEPT !.wpc[w] = "timer"]
    /\ UNCHANGED << settings, loading, error, response, batchResults,
                    batchTotal, phase, commands, workerCount, browserVars >>

\* The retry delay of worker w elapses: attempt += 1 and the loop test
TimerFire(w) ==
    /\ phase = "running"
    /\ wpc[w] = "timer"
    /\ batch' = WorkerRun([batch EXCEPT !.wattempt[w] = @ + 1], w, Closure,
                          "retryLoop")
    /\ UNCHANGED << settings, loading, error, response, batchResults,
                    batchTotal, phase, commands, workerCount, browserVars >>

\* await Promise.all(...) resumes: every worker has returned
Finish ==
    /\ phase = "running"
    /\ \A w \in 1..workerCount : wpc[w] = "returned"
    /\ batchResults' = Filled(results)
    /\ loading' = LoadingAfterBatch
    /\ phase' = "done"
    /\ UNCHANGED << settings, error, response, batchTotal, commands,
                    workerCount, batch, browserVars >>

Next ==
    \/ HandleExecute
    \/ SingleSettle
    \/ \E w \in Workers, status \in ResolveOutcomes : NetResolve(w, status)
    \/ \E w \in Workers : NetReject(w)
    \/ \E w \in Workers : TimerFire(w)
    \/ Finish

Spec == Init /\ [][Next]_vars

\* Every call settles, every timer fires, every continuation runs
LiveSpec ==
    /\ Spec
    /\ \A w \in Workers :
         /\ WF_vars(\E status \in ResolveOutcomes : NetResolve(w, status))
         /\ WF_vars(NetReject(w))
         /\ WF_vars(TimerFire(w))
    /\ WF_vars(Finish)
    /\ WF_vars(SingleSettle)

\* ------------------------------------------------------------------------
\* The format button of the console
\* ------------------------------------------------------------------------
\* handleFormatRequest
HandleFormatRequest ==
    /\ IF batchMode
       THEN \E accepted \in {FormatAccepts(batchText)} :
              IF accepted
              THEN /\ error' = ""
                   /\ batchText' = FormatBatchText(batchText)
              ELSE /\ error' = "invalidJson"
                   /\ batchText' = batchText
       ELSE \E requestBody \in SingleBodies :
              /\ batchText' = batchText
              /\ error' = IF Trim(requestBody) = << >>
                             \/ JsonParses(Trim(requestBody))
                          THEN "" ELSE "invalidJson"
    /\ UNCHANGED << activeConnection, batchMode, concurrency, stopOnError,
                    retryCount, loading, response, batchResults, batchTotal,
                    phase, commands, workerCount, batch, browserVars, app >>

FormatInit ==
    /\ BrowserIdle
    /\ activeConnection = TRUE
    /\ batchMode \in BOOLEAN
    /\ IF batchMode THEN batchText \in FormatScripts(MaxWork)
       ELSE batchText = << >>
    /\ concurrency = 6
    /\ stopOnError = FALSE
    /\ retryCount = 0
    /\ loading = FALSE
    /\ error = ""
    /\ response = "null"
    /\ batchResults = << >>
    /\ batchTotal = 0
    /\ phase = "idle"
    /\ commands = << >>
    /\ workerCount = 0
    /\ batch = NoBatch

FormatNext == HandleFormatRequest

FormatSpec == FormatInit /\ [][FormatNext]_vars

\* ------------------------------------------------------------------------
\* The page fetch of the data browser
\* ------------------------------------------------------------------------
ResultWindow == 10000
BatchSize == 1000

\* Text of a condition value
ValidRange == << "{", "}" >>
BadRange == << "{", "b" >>
SomeValue == << "v" >>

SortDesc == [field |-> "f", operator |-> "term", value |-> << >>,
             boolType |-> "sort", enabled |-> TRUE, sortDirection |-> "desc"]
SortDefault == [field |-> "g", operator |-> "term", value |-> << >>,
                boolType |-> "sort", enabled |-> TRUE, sortDirection |-> ""]
SortOff == [field |-> "h", operator |-> "term", value |-> << >>,
            boolType |-> "sort", enabled |-> FALSE, sortDirection |-> "asc"]
SortNoField == [field |-> "", operator |-> "term", value |-> << >>,
                boolType |-> "sort", enabled |-> TRUE, sortDirection |-> "desc"]
TermMust == [field |-> "t", operator |-> "term", value |-> SomeValue,
             boolType |-> "must", enabled |-> TRUE, sortDirection |-> ""]
RangeGood == [field |-> "r", operator |-> "range", value |-> ValidRange,
              boolType |-> "should", enabled |-> TRUE, sortDirection |-> ""]
RangeBad == [field |-> "r", operator |-> "range", value |-> BadRange,
             boolType |-> "must", enabled |-> TRUE, sortDirection |-> ""]

\* The condition lists, pages, sizes and data sizes of the model
ConditionLists ==
    { << TermMust >>,
      << SortDesc, SortOff, SortNoField, SortDefault >>,
      << RangeGood, SortDefault >>,
      << RangeBad, SortDesc >> }
Pages == {1, 2, 3, 200, 201, 202, 301}
Sizes == {1, 50, 1000, 5000, 10000, 20000}
DataSizes == {0, 700, 10000, 10050, 15500, 20000}

\* conditions.filter(enabled && boolType !== "sort" && field && value)
ActiveConditions(conds) ==
    SelectSeq(conds, LAMBDA c : c.enabled /\ c.boolType # "sort"
                                 /\ c.field # "" /\ c.value # << >>)

\* conditions.filter(enabled && boolType === "sort" && field)
ActiveSorts(conds) ==
    SelectSeq(conds, LAMBDA c : c.enabled /\ c.boolType = "sort"
                                 /\ c.field # "")

\* Some active range condition has a value JSON.parse rejects
RangeError(conds) ==
    \E k \in 1..Len(ActiveConditions(conds)) :
       /\ ActiveConditions(conds)[k].operator = "range"
       /\ ~JsonParses(ActiveConditions(conds)[k].value)

\* The query: the clauses of the active conditions, in order
Query(conds) ==
    LET act == SelectSeq(ActiveConditions(conds),
                   LAMBDA c : c.operator \in {"term", "match", "range"})
    IN [k \in 1..Len(act) |->
          [bucket |-> act[k].boolType, clause |-> act[k].operator,
           field |-> act[k].field, value |-> act[k].value]]

IdAsc == [field |-> "_id", order |-> "asc"]

SortParamsNoTieBreak(conds) ==
    LET act == ActiveSorts(conds)
    IN IF Len(act) = 0 THEN << IdAsc >>
       ELSE [k \in 1..Len(act) |->
               [field |-> act[k].field,
                order |-> IF act[k].sortDirection = "" THEN "asc"
                          ELSE act[k].sortDirection]]
\* sortParams: the active sorts, then _id ascending
SortParams(conds) ==
    LET act == ActiveSorts(conds)
        mapped == [k \in 1..Len(act) |->
                     [field |-> act[k].field,
                      order |-> IF act[k].sortDirection = "" THEN "asc"
                                ELSE act[k].sortDirection]]
    IN IF Len(mapped) = 0 THEN << IdAsc >> ELSE Append(mapped, IdAsc)

UsesDirectPathStrict(from, sz) == from + sz < ResultWindow
\* if (from + size <= 10000)
UsesDirectPath(from, sz) == from + sz <= ResultWindow

CoarseContinuesOvershoot(pos, target) == pos < target
CoarseContinuesStopsEarly(pos, target) == pos + 2 * BatchSize < target
\* while (currentPosition + batchSize < targetFrom)
CoarseContinues(pos, target) == pos + BatchSize < target

ShortBatchIgnored(hits) == FALSE
\* if (hits.length < batchSize) break
ShortBatch(hits) == hits < BatchSize

\* A search body.  kind names the statement that built it.
Request(kind, hasFrom, from, sz, cur, source) ==
    [kind |-> kind, hasFrom |-> hasFrom, from |-> from, size |-> sz,
     query |-> Query(conditions), sort |-> SortParams(conditions),
     searchAfter |-> cur, source |-> source]

\* The documents are numbered 1..totalDocs in the order of the sort, whose
\* last key is the unique _id; the sort tuple of a hit is modelled by its
\* number.  The hits of a request start after its from or its search_after.
HitsStart(req) ==
    IF req.searchAfter.set THEN req.searchAfter.at
    ELSE IF req.hasFrom THEN req.from
    ELSE 0

HitsCount(req) == Max(0, Min(req.size, totalDocs - HitsStart(req)))

LastRequest == requests[Len(requests)]

FirstHitSort(start, hits) == [set |-> TRUE, at |-> start + 1]
\* hits[hits.length - 1]?.sort of a response of hits > 0 documents that
\* starts after document start
LastHitSort(start, hits) == [set |-> TRUE, at |-> start + hits]

FineSkipSourceKept == TRUE
\* _source: false of the skip body after the coarse loop
FineSkipSource == FALSE

\* The walk from the statement named by at to its next await:
\*   "coarse"  the test of the coarse while loop
\*   "fine"    const remaining = targetFrom - currentPosition
\*   "final"   the final fetch
RECURSIVE Walk(_, _, _, _)
Walk(at, pos, cur, target) ==
    IF at = "coarse"
    THEN IF CoarseContinues(pos, target)
         THEN [pc |-> "coarse", pos |-> pos, cur |-> cur,
               req |-> Request("coarse", FALSE, 0, BatchSize, cur, FALSE)]
         ELSE Walk("fine", pos, cur, target)
    ELSE IF at = "fine"
    THEN IF target - pos > 0 /\ cur.set
         THEN [pc |-> "fine", pos |-> pos, cur |-> cur,
               req |-> Request("fine", FALSE, 0, target - pos, cur,
                               FineSkipSource)]
         ELSE Walk("final", pos, cur, target)
    ELSE [pc |-> "final", pos |-> pos, cur |-> cur,
          req |-> Request("final", FALSE, 0, size, cur, TRUE)]

SetWalk(w) ==
    /\ fetchPc' = w.pc
    /\ currentPosition' = w.pos
    /\ searchAfter' = w.cur
    /\ requests' = Append(requests, w.req)

\* What no step of the execute call at hand writes
browserInputs == << dbConnection, selectedIndex, page, size, conditions,
                    totalDocs, superseded, app >>

\* execute up to its first await or its return, by a call that reads the
\* state of the render at hand
StartFetch ==
    /\ result' = NoResult
    /\ IF ~dbConnection \/ ~selectedIndex \/ RangeError(conditions)
       THEN /\ dbError' = IF ~dbConnection THEN "setConnection"
                          ELSE IF ~selectedIndex THEN "selectIndex"
                          ELSE "rangeError"
            /\ dbLoading' = FALSE
            /\ fetchPc' = "done"
            /\ requests' = << >>
            /\ currentPosition' = 0
            /\ searchAfter' = NoCursor
       ELSE /\ dbError' = ""
            /\ dbLoading' = TRUE
            /\ IF UsesDirectPath((page - 1) * size, size)
               THEN /\ fetchPc' = "direct"
                    /\ requests' =
                         << Request("direct", TRUE, (page - 1) * size, size,
                                    NoCursor, TRUE) >>
                    /\ currentPosition' = 0
                    /\ searchAfter' = NoCursor
               ELSE \E w \in {Walk("coarse", 0, NoCursor, (page - 1) * size)} :
                      /\ fetchPc' = w.pc
                      /\ currentPosition' = w.pos
                      /\ searchAfter' = w.cur
                      /\ requests' = << w.req >>

\* The query button: execute while no call is in flight
Execute ==
    /\ fetchPc \in {"idle", "done"}
    /\ StartFetch
    /\ UNCHANGED << browserInputs, consoleVars >>

LoadingAfterFetchKept == TRUE
\* finally { setLoading(false) }
LoadingAfterFetch == FALSE

\* setResult(data); finally { setLoading(false) }
Publish ==
    /\ result' = [set |-> TRUE, first |-> HitsStart(LastRequest) + 1,
                  count |-> HitsCount(LastRequest), total |-> totalDocs]
    /\ dbLoading' = LoadingAfterFetch
    /\ fetchPc' = "done"
    /\ UNCHANGED << dbError, requests, currentPosition, searchAfter >>

\* The search call of the direct path returns
DirectReturn ==
    /\ fetchPc = "direct"
    /\ Publish
    /\ UNCHANGED << browserInputs, consoleVars >>

\* A coarse skip batch returns
CoarseReturn ==
    /\ fetchPc = "coarse"
    /\ \E hits \in {HitsCount(LastRequest)} :
         IF hits = 0
         THEN SetWalk(Walk("fine", currentPosition, searchAfter,
                           (page - 1) * size))
         ELSE IF ShortBatch(hits)
         THEN SetWalk(Walk("fine", currentPosition + hits,
                           LastHitSort(HitsStart(LastRequest), hits),
                           (page - 1) * size))
         ELSE SetWalk(Walk("coarse", currentPosition + hits,
                           LastHitSort(HitsStart(LastRequest), hits),
                           (page - 1) * size))
    /\ UNCHANGED << result, dbError, dbLoading, browserInputs, consoleVars >>

\* The fine skip returns
FineReturn ==
    /\ fetchPc = "fine"
    /\ \E hits \in {HitsCount(LastRequest)} :
         SetWalk(Walk("final", currentPosition,
                      IF hits > 0
                      THEN LastHitSort(HitsStart(LastRequest), hits)
                      ELSE searchAfter,
                      (page - 1) * size))
    /\ UNCHANGED << result, dbError, dbLoading, browserInputs, consoleVars >>

\* The final fetch returns
FinalReturn ==
    /\ fetchPc = "final"
    /\ Publish
    /\ UNCHANGED << browserInputs, consoleVars >>

\* A search call throws (transport failure or non-2xx status): the catch
\* block and the finally block
SearchThrows ==
    /\ fetchPc \in {"direct", "coarse", "fine", "final"}
    /\ dbError' = "queryFailed"
    /\ dbLoading' = LoadingAfterFetch
    /\ fetchPc' = "done"
    /\ UNCHANGED << result, requests, currentPosition, searchAfter,
                    browserInputs, consoleVars >>

\* The console before any execution
ConsoleIdle ==
    /\ activeConnection = TRUE
    /\ batchMode = FALSE
    /\ DefaultSettings
    /\ loading = FALSE
    /\ error = ""
    /\ response = "null"
    /\ batchResults = << >>
    /\ batchTotal = 0
    /\ phase = "idle"
    /\ commands = << >>
    /\ workerCount = 0
    /\ batch = NoBatch

PageInit ==
    /\ ConsoleIdle
    /\ dbConnection \in BOOLEAN
    /\ selectedIndex \in BOOLEAN
    /\ IF dbConnection /\ selectedIndex
       THEN /\ page \in Pages
            /\ size \in Sizes
            /\ conditions \in ConditionLists
            /\ totalDocs \in DataSizes
       ELSE /\ page = 1
            /\ size = 10
            /\ conditions = << >>
            /\ totalDocs = 0
    /\ result = NoResult
    /\ dbError = ""
    /\ dbLoading = FALSE
    /\ requests = << >>
    /\ fetchPc = "idle"
    /\ currentPosition = 0
    /\ searchAfter = NoCursor
    /\ superseded = << >>
    /\ app = AppOf(DefaultState)

PageNext ==
    \/ Execute
    \/ DirectReturn
    \/ CoarseReturn
    \/ FineReturn
    \/ FinalReturn
    \/ SearchThrows

PageSpec == PageInit /\ [][PageNext]_vars

\* ------------------------------------------------------------------------
\* The data browser with index changes and document deletion
\* ------------------------------------------------------------------------
\* At most MaxSuperseded superseded calls are in flight, and at most
\* MaxDeleted documents of an index are deleted
MaxSuperseded == 2
MaxDeleted == 1

\* The response of the last search of an execute call that ran to its end
\* over docs matching documents
PageOf(docs) ==
    LET start == IF UsesDirectPath((page - 1) * size, size)
                 THEN (page - 1) * size
                 ELSE Min((page - 1) * size, docs)
    IN [set |-> TRUE, first |-> start + 1,
        count |-> Max(0, Min(size, docs - start)), total |-> docs]

\* handleIndexChange for another index, whose query matches another
\* number of documents.  A call in flight goes on with what it captured.
HandleIndexChange ==
    /\ dbConnection
    /\ selectedIndex
    /\ fetchPc \in {"idle", "done", "direct", "coarse", "fine", "final"}
    /\ Len(superseded) + 2 <= MaxSuperseded
    /\ \E docs \in DataSizes \ {totalDocs} : totalDocs' = docs
    /\ conditions' = << [field |-> "", operator |-> "term", value |-> << >>,
                         boolType |-> "must", enabled |-> TRUE,
                         sortDirection |-> ""] >>
    /\ result' = NoResult
    /\ superseded' =
          IF fetchPc \in {"direct", "coarse", "fine", "final"}
          THEN Append(superseded, [docs |-> totalDocs])
          ELSE superseded
    /\ fetchPc' = "effects"
    /\ requests' = << >>
    /\ currentPosition' = 0
    /\ searchAfter' = NoCursor
    /\ UNCHANGED << dbConnection, selectedIndex, page, size, dbError,
                    dbLoading, consoleVars, app >>

\* The effects of the render after an index change: the conditions and
\* the result are reset, and each of the two auto-query effects calls
\* execute.  The second call is the call at hand from here on.
AutoQuery ==
    /\ fetchPc = "effects"
    /\ StartFetch
    /\ superseded' = Append(superseded, [docs |-> totalDocs])
    /\ UNCHANGED << dbConnection, selectedIndex, page, size, conditions,
                    totalDocs, consoleVars, app >>

\* The last search of a superseded call returns, or one of its searches
\* throws: setResult(data) or setError, then finally { setLoading(false) }
SupersededSettles ==
    /\ fetchPc # "effects"
    /\ \E k \in 1..Len(superseded) :
         /\ superseded' =
               [j \in 1..(Len(superseded) - 1) |->
                  IF j < k THEN superseded[j] ELSE superseded[j + 1]]
         /\ \/ /\ result' = PageOf(superseded[k].docs)
               /\ dbError' = dbError
            \/ /\ dbError' = "queryFailed"
               /\ result' = result
    /\ dbLoading' = LoadingAfterFetch
    /\ UNCHANGED << dbConnection, selectedIndex, page, size, conditions,
                    totalDocs, requests, fetchPc, currentPosition,
                    searchAfter, consoleVars, app >>

\* handleDeleteDoc, confirmed, for a row of the page on display, up to
\* await deleteDocument
HandleDeleteDoc ==
    /\ dbConnection
    /\ fetchPc = "done"
    /\ result.set
    /\ result.count > 0
    /\ result.total = totalDocs
    /\ \E d \in 0..(MaxDeleted - 1) : totalDocs + d \in DataSizes
    /\ dbLoading' = TRUE
    /\ dbError' = ""
    /\ fetchPc' = "delete"
    /\ UNCHANGED << result, requests, currentPosition, searchAfter,
                    browserInputs, consoleVars >>

\* catch (e) { setError("...") } finally { setLoading(false) } of
\* handleDeleteDoc
DeleteFails ==
    /\ dbError' = "deleteFailed"
    /\ dbLoading' = FALSE
    /\ fetchPc' = "done"
    /\ UNCHANGED << result, currentPosition, searchAfter >>

\* deleteDocument and refreshIndex return and executeQuery runs up to its
\* await or its throw, or one of the two calls throws
DeleteSettles ==
    /\ fetchPc = "delete"
    /\ \/ /\ totalDocs' = totalDocs - 1
          /\ IF selectedIndex /\ ~RangeError(conditions)
                /\ UsesDirectPath((page - 1) * size, size)
             THEN /\ requests' =
                       << Request("requery", TRUE, (page - 1) * size, size,
                                  NoCursor, TRUE) >>
                  /\ fetchPc' = "requery"
                  /\ UNCHANGED << result, dbError, dbLoading,
                                  currentPosition, searchAfter >>
             ELSE DeleteFails /\ requests' = requests
       \/ /\ DeleteFails
          /\ UNCHANGED << totalDocs, requests >>
    /\ UNCHANGED << dbConnection, selectedIndex, page, size, conditions,
                    superseded, consoleVars, app >>

\* The search of executeQuery returns (setResult(response)) or throws
RequerySettles ==
    /\ fetchPc = "requery"
    /\ \/ Publish
       \/ DeleteFails /\ UNCHANGED << requests >>
    /\ UNCHANGED << browserInputs, consoleVars >>

BrowserInit ==
    /\ ConsoleIdle
    /\ dbConnection = TRUE
    /\ selectedIndex = TRUE
    /\ page \in {1, 201}
    /\ size = 50
    /\ conditions \in ConditionLists
    /\ totalDocs \in DataSizes
    /\ result = NoResult
    /\ dbError = ""
    /\ dbLoading = FALSE
    /\ requests = << >>
    /\ fetchPc = "idle"
    /\ currentPosition = 0
    /\ searchAfter = NoCursor
    /\ superseded = << >>
    /\ app = AppOf(DefaultState)

BrowserNext ==
    \/ PageNext
    \/ HandleIndexChange
    \/ AutoQuery
    \/ SupersededSettles
    \/ HandleDeleteDoc
    \/ DeleteSettles
    \/ RequerySettles

BrowserSpec == BrowserInit /\ [][BrowserNext]_vars

\* ------------------------------------------------------------------------
\* The application context (AppProvider): persist-based operations
\* ------------------------------------------------------------------------
\* At most MaxOps operations are in flight
MaxOps == 2

\* saveConnection(profile, secret) up to await saveState: nextState is
\* computed from the state of the render at hand
SaveConnection(id) ==
    /\ Len(app.ops) < MaxOps
    /\ app' = [app EXCEPT !.ops = Append(@,
                 [kind |-> "save", pc |-> "write", id |-> id,
                  next |-> [app.state EXCEPT !.profiles = @ \cup {id},
                                             !.secrets = @ \cup {id},
                                             !.last = id]])]
    /\ UNCHANGED << consoleVars, browserVars >>

\* deleteConnection(id) up to await saveState
DeleteConnection(id) ==
    /\ Len(app.ops) < MaxOps
    /\ id \in app.state.profiles
    /\ app' = [app EXCEPT
                 !.held = @ \ {id},
                 !.ops = Append(@,
                   [kind |-> "delete", pc |-> "write", id |-> id,
                    next |-> [profiles |-> app.state.profiles \ {id},
                              secrets |-> app.state.secrets \ {id},
                              cached |-> app.state.cached \ {id},
                              last |-> IF app.state.last # id
                                       THEN app.state.last
                                       ELSE IF app.state.profiles \ {id} = {}
                                       THEN 0
                                       ELSE CHOOSE other \in
                                              app.state.profiles \ {id} :
                                              TRUE]])]
    /\ UNCHANGED << consoleVars, browserVars >>

\* refreshIndices() for the active connection up to await listIndices;
\* the callback keeps the state of the render at hand
RefreshIndices ==
    /\ Len(app.ops) < MaxOps
    /\ app.state.last \in app.state.profiles
    /\ app' = [app EXCEPT !.ops = Append(@,
                 [kind |-> "refresh", pc |-> "list", id |-> app.state.last,
                  next |-> app.state])]
    /\ UNCHANGED << consoleVars, browserVars >>

\* listIndices returns: nextState is the captured state with the indices
\* of the target cached, handed to persist; or it throws
ListSettles(k) ==
    /\ k \in 1..Len(app.ops)
    /\ app.ops[k].pc = "list"
    /\ \/ app' = [app EXCEPT
                     !.ops[k].pc = "write",
                     !.ops[k].next.cached = @ \cup {app.ops[k].id}]
       \/ app' = [app EXCEPT
                     !.ops = SubSeq(@, 1, k - 1) \o SubSeq(@, k + 1, Len(@))]
    /\ UNCHANGED << consoleVars, browserVars >>

\* saveState(nextState) writes the store
SaveStateWrites(k) ==
    /\ k \in 1..Len(app.ops)
    /\ app.ops[k].pc = "write"
    /\ app' = [app EXCEPT !.stored = app.ops[k].next,
                          !.ops[k].pc = "set"]
    /\ UNCHANGED << consoleVars, browserVars >>

\* persist resumes after await saveState: setState(nextState), and the
\* operation completes
PersistSets(k) ==
    /\ k \in 1..Len(app.ops)
    /\ app.ops[k].pc = "set"
    /\ app' = [app EXCEPT
                 !.state = app.ops[k].next,
                 !.held = IF app.ops[k].kind = "save"
                          THEN @ \cup {app.ops[k].id} ELSE @,
                 !.ops = SubSeq(@, 1, k - 1) \o SubSeq(@, k + 1, Len(@))]
    /\ UNCHANGED << consoleVars, browserVars >>

\* The context holds connection 1, which is the active one
StoreInit ==
    /\ ConsoleIdle
    /\ dbConnection = TRUE
    /\ selectedIndex = FALSE
    /\ page = 1
    /\ size = 10
    /\ conditions = << >>
    /\ result = NoResult
    /\ dbError = ""
    /\ dbLoading = FALSE
    /\ totalDocs = 0
    /\ requests = << >>
    /\ fetchPc = "idle"
    /\ currentPosition = 0
    /\ searchAfter = NoCursor
    /\ superseded = << >>
    /\ app = AppOf([profiles |-> {1}, secrets |-> {1}, cached |-> {},
                    last |-> 1])

StoreNext ==
    \/ \E id \in 1..2 : SaveConnection(id)
    \/ \E id \in 1..2 : DeleteConnection(id)
    \/ RefreshIndices
    \/ \E k \in 1..MaxOps : ListSettles(k)
    \/ \E k \in 1..MaxOps : SaveStateWrites(k)
    \/ \E k \in 1..MaxOps : PersistSets(k)

StoreSpec == StoreInit /\ [][StoreNext]_vars

\* ------------------------------------------------------------------------
\* Properties of the batch executor
\* ------------------------------------------------------------------------
Running == phase = "running"
Done == phase = "done"
Cmds == Indices(commands)

\* Commands with a network request in flight
InFlight == Cardinality({w \in Workers : Running /\ wpc[w] = "net"})

PassesValidation(i) ==
    /\ commands[i + 1].path # << >>
    /\ \/ commands[i + 1].bodyText = << >>
       \/ JsonParses(commands[i + 1].bodyText)

AllRejected(i) ==
    /\ batch.outcomes[i] # << >>
    /\ \A k \in 1..Len(batch.outcomes[i]) : batch.outcomes[i][k] = "reject"

IsErrorResult(r) ==
    r.filled /\ r.error # "" /\ r.status = "null" /\ r.ok = FALSE

\* C1: during a batch the number of commands with a network request in
\* flight never exceeds min(10, max(1, floor(concurrency))).
C1_ConcurrencyBound == InFlight <= Min(10, Max(1, Floor(concurrency)))

\* The bound is reached while more commands than the bound remain.
C1_Witness ==
    /\ Running
    /\ InFlight = Min(10, Max(1, Floor(concurrency)))
    /\ Len(commands) > InFlight
    /\ cursor < Len(commands)

\* C2: no command index is claimed by two workers and no result slot is
\* written more than once; when the batch is never stopped, every index
\* 0..N-1 is claimed exactly once by the time it finishes.
C2_ClaimOnce ==
    /\ \A i \in Cmds : batch.claimCount[i] <= 1 /\ batch.writes[i] <= 1
    /\ (Done /\ ~stopped) => \A i \in Cmds : batch.claimCount[i] = 1

C2_Witness ==
    /\ Done
    /\ ~stopped
    /\ Len(commands) >= 2
    /\ workerCount >= 2
    /\ \A i \in Cmds : batch.sent[i] >= 1

OwnResult(i) ==
    LET cmd == commands[i + 1]
        out == batch.outcomes[i]
    IN IF ~PassesValidation(i)
       THEN [filled |-> TRUE, index |-> i, method |-> cmd.method,
             path |-> cmd.path, status |-> "null", ok |-> FALSE,
             error |-> IF cmd.path = << >> THEN "missingPath"
                       ELSE "invalidJson"]
       ELSE IF out # << >> /\ out[Len(out)] # "reject"
       THEN [filled |-> TRUE, index |-> i, method |-> cmd.method,
             path |-> cmd.path, status |-> out[Len(out)],
             ok |-> (out[Len(out)] = "200"), error |-> ""]
       ELSE [filled |-> TRUE, index |-> i, method |-> cmd.method,
             path |-> cmd.path, status |-> "null", ok |-> FALSE,
             error |-> "transport"]

C6_CompletedCounter ==
    /\ \A i \in Cmds : batch.incs[i] <= 1
    /\ Done => \A i \in Cmds : results[i].filled => batch.incs[i] = 1
    /\ (Done /\ ~stopped) => batchCompleted = batchTotal

\* C7: the result in slot i has index i and the method and path of the
\* i-th command, whatever order the commands complete in, and the list
\* published at the end is in ascending script order.
C7_IndexAddressed ==
    /\ \A i \in Cmds :
          results[i].filled =>
             /\ results[i].index = i
             /\ results[i].method = commands[i + 1].method
             /\ results[i].path = commands[i + 1].path
    /\ Done =>
         /\ \A k, l \in 1..Len(batchResults) :
               k < l => batchResults[k].index < batchResults[l].index
         /\ \A i \in Cmds :
               results[i].filled =>
                  \E k \in 1..Len(batchResults) : batchResults[k] = results[i]

\* A later command has its result while an earlier one has none yet.
C7_Witness ==
    /\ Running
    /\ \E i, j \in Cmds : i < j /\ ~results[i].filled /\ results[j].filled

\* A command of the batch failed
Failed(i) ==
    /\ batch.claimCount[i] >= 1
    /\ \/ ~PassesValidation(i)
       \/ AllRejected(i)

C9_Non2xxRetried ==
    Done =>
       \A i \in Cmds :
          (PassesValidation(i) /\ results[i].filled /\ ~results[i].ok) =>
             batch.sent[i] = retryCount + 1

\* ------------------------------------------------------------------------
\* Properties of the page fetch
\* ------------------------------------------------------------------------
From == (page - 1) * size

\* The fetch got past the checks that precede the search
Searching == fetchPc \in {"direct", "coarse", "fine", "final"}
Searched == Searching \/ (fetchPc = "done" /\ requests # << >>)

\* C10: for page >= 1 and size >= 1 with (page-1)*size + size <= 10000, a
\* page fetch sends exactly one search request, with from = (page-1)*size,
\* the size, and no search_after; it sends no skip request.
C10_DirectPath ==
    (page >= 1 /\ size >= 1 /\ (page - 1) * size + size <= 10000
       /\ Searched) =>
       /\ Len(requests) = 1
       /\ requests[1].hasFrom
       /\ requests[1].from = (page - 1) * size
       /\ requests[1].size = size
       /\ ~requests[1].searchAfter.set
       /\ requests[1].source
       /\ requests[1].kind = "direct"

\* A fetch at the boundary (page-1)*size + size = 10000 has its page.
C10_Witness ==
    /\ fetchPc = "done"
    /\ page > 1
    /\ (page - 1) * size + size = 10000
    /\ result.set
    /\ result.count = size

\* The documents the skip requests sent so far have returned
RECURSIVE SkippedFrom(_)
SkippedFrom(k) ==
    IF k > Len(requests) THEN 0
    ELSE (IF requests[k].kind \in {"coarse", "fine"}
          THEN HitsCount(requests[k]) ELSE 0) + SkippedFrom(k + 1)

Skipped == SkippedFrom(1)

\* The final fetch of a cursor walk was sent
FinalSent == requests # << >> /\ LastRequest.kind = "final"

\* C11: on the cursor walk ((page-1)*size + size > 10000) over at least
\* (page-1)*size matching documents, the skip requests return exactly
\* (page-1)*size documents in total, the final fetch carries the sort tuple
\* of the document at that position as search_after (none when the
\* position is 0), and the page it returns starts at offset (page-1)*size
\* and has min(size, documents left) rows.
C11_WalkExact ==
    (page >= 1 /\ (page - 1) * size + size > 10000
       /\ totalDocs >= (page - 1) * size /\ FinalSent) =>
       /\ Skipped = (page - 1) * size
       /\ LastRequest.searchAfter.set <=> (page - 1) * size > 0
       /\ LastRequest.searchAfter.set =>
             LastRequest.searchAfter.at = (page - 1) * size
       /\ ~LastRequest.hasFrom
       /\ LastRequest.size = size
       /\ result.set =>
             /\ result.first = (page - 1) * size + 1
             /\ result.count = Min(size, totalDocs - (page - 1) * size)

\* A page at offset 10050 was fetched through coarse batches and a fine
\* skip of 50 documents.
C11_Witness ==
    /\ fetchPc = "done"
    /\ (page - 1) * size = 10050
    /\ result.set
    /\ result.first = 10051
    /\ result.count = size
    /\ \E k \in 1..Len(requests) :
          requests[k].kind = "fine" /\ requests[k].size = 50

\* searchAfter once the responses of requests 1..k have been handled
RECURSIVE CursorAfter(_)
CursorAfter(k) ==
    IF k = 0 THEN NoCursor
    ELSE IF requests[k].kind \in {"coarse", "fine"}
            /\ HitsCount(requests[k]) > 0
    THEN [set |-> TRUE,
          at |-> HitsStart(requests[k]) + HitsCount(requests[k])]
    ELSE CursorAfter(k - 1)

\* Request k is a coarse batch whose response, of fewer than 1000
\* documents, has been handled
ShortCoarse(k) ==
    /\ requests[k].kind = "coarse"
    /\ HitsCount(requests[k]) < 1000
    /\ (k < Len(requests) \/ fetchPc = "done")

\* C12: after a coarse batch that returned fewer than 1000 documents no
\* coarse batch is sent, and the final fetch is sent with the cursor
\* established up to that batch and returns at most size rows; the fetch
\* reports no error unless a call fails.
C12_EarlyTermination ==
    \A k \in 1..Len(requests) :
       ShortCoarse(k) =>
          /\ \A l \in (k + 1)..Len(requests) : requests[l].kind # "coarse"
          /\ FinalSent =>
                /\ LastRequest.searchAfter = CursorAfter(k)
                /\ LastRequest.size = size
                /\ result.set => result.count <= size
          /\ (fetchPc = "done" /\ dbError = "") => (FinalSent /\ result.set)

\* A walk over 700 documents ended at its first, short coarse batch and
\* the final fetch was sent with the cursor of the 700th document.
C12_Witness ==
    /\ fetchPc = "done"
    /\ totalDocs = 700
    /\ FinalSent
    /\ ShortCoarse(1)
    /\ LastRequest.searchAfter = [set |-> TRUE, at |-> 700]
    /\ result.set
    /\ dbError = ""

\* The sort conditions of the user that are switched on and name a field
UserSorts ==
    SelectSeq(conditions,
        LAMBDA c : c.boolType = "sort" /\ c.enabled /\ c.field # "")

\* C13: every search request of a page fetch carries a sort list that is
\* the enabled sort conditions of the user, in order, followed by
\* {_id: asc}; with no such condition the list is exactly [{_id: asc}].
C13_SortTieBreak ==
    \A k \in 1..Len(requests) :
       LET s == requests[k].sort
           n == Len(UserSorts)
       IN /\ Len(s) = n + 1
          /\ s[n + 1] = [field |-> "_id", order |-> "asc"]
          /\ \A j \in 1..n :
                /\ s[j].field = UserSorts[j].field
                /\ s[j].order = IF UserSorts[j].sortDirection = "desc"
                                THEN "desc" ELSE "asc"

\* A walk with two user sorts sent a coarse batch, a fine skip and the
\* final fetch.
C13_Witness ==
    /\ Len(UserSorts) = 2
    /\ FinalSent
    /\ \E k, l \in 1..Len(requests) :
          requests[k].kind = "coarse" /\ requests[l].kind = "fine"

\* C14: when a search call of a page fetch fails, the fetch ends at that
\* call: the error is reported, no result is set, loading is false, and
\* no request is sent in that step or afterwards until the next fetch.
C14_FailStops ==
    /\ [](dbError = "queryFailed" =>
            (fetchPc = "done" /\ ~result.set /\ ~dbLoading))
    /\ [][(Searching /\ dbError' = "queryFailed") =>
            requests' = requests]_vars
    /\ [][(dbError = "queryFailed" /\ dbError' = "queryFailed") =>
            requests' = requests]_vars

\* A walk failed at its third coarse batch.
C14_Witness ==
    /\ dbError = "queryFailed"
    /\ Len(requests) = 3
    /\ LastRequest.kind = "coarse"
    /\ ~result.set
    /\ ~dbLoading

\* C16: a command whose body text is not empty and is not JSON has an
\* error result (status null, ok false, error set) from the step that
\* claims it on, and no request is ever sent for it, whatever retryCount.
C16_InvalidBodyNoCall ==
    \A i \in Cmds :
       (commands[i + 1].bodyText # << >>
          /\ ~JsonParses(commands[i + 1].bodyText)) =>
          /\ batch.sent[i] = 0
          /\ batch.outcomes[i] = << >>
          /\ batch.claimCount[i] = 1 =>
                /\ IsErrorResult(results[i])
                /\ results[i].error = "invalidJson"
                /\ batch.writes[i] = 1

\* With retries switched on a command with an invalid body has its error
\* result while another command was sent.
C16_Witness ==
    /\ Done
    /\ retryCount >= 1
    /\ \E i, j \in Cmds :
          /\ ~JsonParses(commands[i + 1].bodyText)
          /\ commands[i + 1].bodyText # << >>
          /\ results[i].error = "invalidJson"
          /\ batch.sent[i] = 0
          /\ batch.sent[j] >= 2

\* The scripts of the model from which parseBatchCommands returns no
\* command
CommandlessScripts ==
    { t \in Scripts(MaxWork) \cup NoCommandScripts :
        Len(ParseBatchCommands(t)) = 0 }

\* Batch mode with a connection and a script without a command
ZeroCommands ==
    /\ activeConnection
    /\ batchMode
    /\ batchText \in CommandlessScripts

\* C17: executing a script from which no command is parsed reports the
\* parse error and nothing else happens: no worker is started, no request
\* is sent, the result list stays empty, the total stays 0 and loading
\* is false.
C17_ZeroCommands ==
    /\ [](ZeroCommands =>
            /\ phase = "idle"
            /\ ~loading
            /\ batchTotal = 0
            /\ batchResults = << >>
            /\ batch = NoBatch
            /\ \A w \in Workers : wpc[w] = "none"
            /\ error \in {"", "noCommand"})
    /\ [][ZeroCommands => error' = "noCommand"]_vars

\* A script that holds only a comment line was executed.
C17_Witness ==
    /\ error = "noCommand"
    /\ batchText # << >>
    /\ batchText[1] = "#"
    /\ ~loading
    /\ batchTotal = 0

\* C19: with stopOnError, a command whose call returned a response with a
\* non-2xx status has set the stopped flag, and no command is claimed
\* after it.
C19_Non2xxStops ==
    stopOnError =>
       \A i \in Cmds :
          (results[i].filled /\ results[i].status = "404") =>
             /\ stopped
             /\ \A j \in Cmds : j > i /\ workerCount = 1 =>
                   batch.claimCount[j] = 0

\* A cursor walk over at least (page-1)*size matching documents
WalkWithData ==
    /\ page >= 1
    /\ (page - 1) * size + size > 10000
    /\ totalDocs >= (page - 1) * size

\* C20 as stated: on a cursor walk with enough data the fine skip
\* requests fewer than 1000 documents.
C20_FineSkipBelowBatch ==
    WalkWithData =>
       \A k \in 1..Len(requests) :
          requests[k].kind = "fine" => requests[k].size < 1000

\* C20, amended: on a cursor walk with enough data the coarse walk stops
\* when the gap to (page-1)*size is at most one batch; the fine skip
\* requests that gap, which is between 1 and 1000 documents, and a walk
\* to a position above 0 always sends one.
C20_FineSkipAtMostBatch ==
    WalkWithData =>
       /\ \A k \in 1..Len(requests) :
             requests[k].kind = "fine" =>
                /\ requests[k].searchAfter.set
                /\ requests[k].size =
                      (page - 1) * size - requests[k].searchAfter.at
                /\ requests[k].size >= 1
                /\ requests[k].size <= 1000
       /\ (FinalSent /\ (page - 1) * size > 0) =>
             requests[Len(requests) - 1].kind = "fine"

\* The walk to position 15000 sent a fine skip of exactly 1000 documents
\* and the page was fetched.
C20_Witness ==
    /\ fetchPc = "done"
    /\ (page - 1) * size = 15000
    /\ totalDocs >= 15000
    /\ result.set
    /\ \E k \in 1..Len(requests) :
          requests[k].kind = "fine" /\ requests[k].size = 1000

\* C18: the search calls of a page fetch are sequential: while a call is
\* awaited it is the last request sent, a step sends at most one request
\* and sends it either at the start of the fetch or while it handles the
\* response of the call before, and every request after the first carries
\* the cursor that the responses before it have established.
C18_Sequential ==
    /\ [](Searching =>
            (requests # << >> /\ LastRequest.kind = fetchPc))
    /\ [](\A k \in 1..Len(requests) :
            requests[k].searchAfter = CursorAfter(k - 1))
    /\ [][requests' # requests =>
            \/ fetchPc \in {"idle", "done"} /\ Len(requests') <= 1
            \/ /\ fetchPc \in {"coarse", "fine"}
               /\ Len(requests') = Len(requests) + 1
               /\ SubSeq(requests', 1, Len(requests)) = requests]_vars

\* The final fetch of a walk with coarse batches and a fine skip is
\* awaited.
C18_Witness ==
    /\ fetchPc = "final"
    /\ Len(requests) >= 12
    /\ requests[Len(requests) - 1].kind = "fine"
    /\ LastRequest.searchAfter.at = 10050

\* ------------------------------------------------------------------------
\* Properties of the formatter
\* ------------------------------------------------------------------------
\* Body text y carries the same JSON value as body text x
SameJson(x, y) ==
    IF x = << >> THEN y = << >>
    ELSE /\ y # << >>
         /\ JsonParses(y)
         /\ JsonParse(y) = JsonParse(x)

\* Text f parses to the commands of text t, and formatting f changes nothing
RoundTrip(t, f) ==
    LET a == ParseBatchCommands(t)
        b == ParseBatchCommands(f)
    IN /\ Len(b) = Len(a)
       /\ \A k \in 1..Len(a) :
             /\ b[k].method = a[k].method
             /\ b[k].path = a[k].path
             /\ SameJson(a[k].bodyText, b[k].bodyText)
       /\ FormatAccepts(f)
       /\ FormatBatchText(f) = f

\* C15: when formatBatchText accepts a script, the formatted text parses
\* to the same commands (same count, same method and path at each
\* position, bodies that are equal as JSON), and formatting the formatted
\* text returns it unchanged.
C15_FormatRoundTrip ==
    [][(batchMode /\ error' = "") => RoundTrip(batchText, batchText')]_vars

\* A script of two commands, the first with a nested body, was formatted.
C15_Witness ==
    /\ batchMode
    /\ error = ""
    /\ batchText = << "P","O","S","T"," ","/","b","\n",
                       "[","\n"," "," ","{","}","\n","]","\n","\n",
                       "D","E","L","E","T","E"," ","/","d" >>

\* C21: when a skip batch of the cursor walk (coarse or fine) whose response
\* has been handled returned fewer documents than requested (or none), the
\* very next request is the final fetch with the cursor established so
\* far; no skip request follows.
C21_NoSkipAfterEndOfData ==
    \A k \in 1..(Len(requests) - 1) :
       (requests[k].kind \in {"coarse", "fine"}
          /\ HitsCount(requests[k]) < requests[k].size) =>
          /\ requests[k + 1].kind = "final"
          /\ requests[k + 1].searchAfter = CursorAfter(k)
          /\ \A l \in (k + 1)..Len(requests) :
                requests[l].kind \notin {"coarse", "fine"}

\* C22 as stated: on the cursor walk no request carries from, the first
\* coarse batch carries no search_after, every later request carries a
\* search_after, the sort tuple of the last hit of the most recent
\* non-empty batch, and _source:false is on the skip batches only.
C22_LaterRequestsCarryCursor ==
    (page - 1) * size + size > 10000 =>
       \A k \in 1..Len(requests) :
          /\ ~requests[k].hasFrom
          /\ (k = 1 /\ requests[k].kind = "coarse") =>
                ~requests[k].searchAfter.set
          /\ k > 1 =>
                /\ requests[k].searchAfter.set
                /\ requests[k].searchAfter = CursorAfter(k - 1)
          /\ requests[k].source <=> requests[k].kind = "final"

\* C22, amended: on the cursor walk no request carries from, the first
\* request carries no search_after, every later request carries as
\* search_after the sort tuple of the last hit of the most recent
\* non-empty batch and none when every batch before it was empty, and
\* _source:false is on the skip batches (coarse and fine) only.
C22_WalkRequestShape ==
    (page - 1) * size + size > 10000 =>
       \A k \in 1..Len(requests) :
          /\ ~requests[k].hasFrom
          /\ k = 1 => ~requests[k].searchAfter.set
          /\ k > 1 =>
                /\ requests[k].searchAfter = CursorAfter(k - 1)
                /\ requests[k].searchAfter.set <=>
                      \E l \in 1..(k - 1) : HitsCount(requests[l]) > 0
          /\ requests[k].source <=> requests[k].kind = "final"
          /\ requests[k].kind \in {"coarse", "fine", "final"}

\* A walk to offset 15000 over 10000 documents: the eleventh coarse batch
\* was empty, and the fine skip and the final fetch carried the sort tuple
\* of document 10000.
C22_Witness ==
    /\ fetchPc = "done"
    /\ result.set
    /\ (page - 1) * size = 15000
    /\ totalDocs = 10000
    /\ Len(requests) = 13
    /\ requests[11].kind = "coarse"
    /\ HitsCount(requests[11]) = 0
    /\ requests[12].kind = "fine"
    /\ requests[12].searchAfter.at = 10000
    /\ ~requests[12].source
    /\ requests[13].searchAfter.at = 10000
    /\ requests[13].source

\* C23: when stop-on-error halts a batch, each command that triggered the
\* stop (it has an error result) is counted exactly once in the completed
\* counter, whichever kind of failure it was, and a command that was never
\* claimed has no result and is absent from the published list.
C23_StoppingCommandCounted ==
    (Done /\ stopOnError /\ stopped) =>
       \A i \in Cmds :
          /\ IsErrorResult(results[i]) => batch.incs[i] = 1
          /\ batch.claimCount[i] = 0 =>
                /\ ~results[i].filled
                /\ \A k \in 1..Len(batchResults) : batchResults[k].index # i

C25_CommentLines ==
    LET lines == SplitLines(batchText)
        cmds == ParseBatchCommands(batchText)
        marked(t) == \/ t = << >>
                     \/ t[1] = "#"
                     \/ (Len(t) >= 2 /\ t[1] = "/" /\ t[2] = "/")
        starts == { k \in 1..Len(lines) :
                      /\ ~marked(Trim(lines[k]))
                      /\ MatchedMethod(Trim(lines[k])) # 0 }
        next(p) == IF \E k \in starts : k > p
                   THEN CHOOSE k \in starts :
                          k > p /\ \A l \in starts : l > p => k <= l
                   ELSE Len(lines) + 1
    IN /\ Len(cmds) = Cardinality(starts)
       /\ \A p \in starts :
             LET c == cmds[Cardinality({ k \in starts : k <= p })]
                 t == Trim(lines[p])
             IN /\ c.method = METHODS[MatchedMethod(t)]
                /\ c.path = NormalizePath(MatchedPath(t, MatchedMethod(t)))
                /\ c.bodyText =
                     Trim(JoinLines([j \in 1..(next(p) - 1 - p) |->
                                       TrimEnd(lines[p + j])]))

\* The format button was pressed on a script that opens with a # line of
\* the shape of a command, has one command line and ends with a // line of
\* that shape: one command is parsed, the # line is in no body and the
\* // line is the body.
C25_Witness ==
    /\ batchMode
    /\ error = "invalidJson"
    /\ batchText = << "#"," ","G","E","T"," ","/","n","\n",
                       "G","E","T"," ","/","a","\n",
                       " ","/","/","p","u","t"," ","/","y" >>
    /\ Len(ParseBatchCommands(batchText)) = 1
    /\ ParseBatchCommands(batchText)[1].path = << "/", "a" >>
    /\ ParseBatchCommands(batchText)[1].bodyText =
          << "/","/","p","u","t"," ","/","y" >>

\* C26: comment lines are not executed.  A command that was claimed, has a
\* path and whose body, with the blank lines and the lines that start with
\* # or // left out, is empty or JSON, is dispatched: a request is sent
\* for it and it gets no body-format error.
C26_CommentsNotExecuted ==
    \A i \in Cmds :
       LET marked(t) == \/ t = << >>
                        \/ t[1] = "#"
                        \/ (Len(t) >= 2 /\ t[1] = "/" /\ t[2] = "/")
           text == JoinLines(SelectSeq(SplitLines(commands[i + 1].bodyText),
                                       LAMBDA l : ~marked(Trim(l))))
       IN (/\ batch.claimCount[i] = 1
           /\ commands[i + 1].path # << >>
           /\ (Trim(text) = << >> \/ JsonParses(text))) =>
             /\ batch.sent[i] >= 1
             /\ results[i].filled => results[i].error # "invalidJson"

\* C27: every command parseBatchCommands returned has one of the six
\* upper-case methods and a path that is not empty and begins with "/";
\* no command of a batch gets the missing-path error.
C27_ParsedCommandShape ==
    /\ \A k \in 1..Len(commands) :
          /\ \E m \in 1..Len(METHODS) : commands[k].method = METHODS[m]
          /\ commands[k].path # << >>
          /\ commands[k].path[1] = "/"
    /\ \A i \in Cmds : results[i].error # "missingPath"

\* A batch whose script has a lower-case method and a path without a
\* slash was run: the command is POST /b and it was sent.
C27_Witness ==
    /\ Done
    /\ \E i \in Cmds :
          /\ commands[i + 1].method = << "P","O","S","T" >>
          /\ commands[i + 1].path = << "/", "b" >>
          /\ batch.sent[i] >= 1
          /\ results[i].filled
    /\ \E k \in 1..Len(batchText) : batchText[k] = "p"

\* C28: when page fetches of the data browser overlap, an older call that
\* returns after the call that started last has finished does not replace
\* the result on display.
C28_LatestFetchWins ==
    [][(fetchPc = "done" /\ Len(superseded') < Len(superseded)) =>
          result' = result]_vars

\* C30: when the delete of a document of the page on display succeeds,
\* executeQuery queries the page as execute does, for every page and
\* size: no failure is reported, and when the search returns the page on
\* display is the page execute returns.
C30_RequeryAsExecute ==
    /\ [][(fetchPc = "delete" /\ totalDocs' # totalDocs) =>
             (dbError' # "deleteFailed" /\ fetchPc' = "requery")]_vars
    /\ [][(fetchPc = "requery" /\ fetchPc' = "done"
              /\ dbError' # "deleteFailed") =>
             result' = PageOf(totalDocs)]_vars

\* C29: once saveConnection(profile) has completed, the profile and its
\* secret are in the state and in the persisted store until
\* deleteConnection is called for it, whatever operation that started
\* earlier completes afterwards.
C29_NoLostUpdate ==
    \A id \in app.held :
       /\ id \in app.state.profiles
       /\ id \in app.state.secrets
       /\ id \in app.stored.profiles
       /\ id \in app.stored.secrets

====
